---- MODULE Spec2Model ----
(***************************************************************************)
(* MISO index pipeline: the lag-embedding builder, the anomaly             *)
(* constructor, the score projector (MISO_calculations.py) and the         *)
(* ensemble mean of the renderer (Plotting_MISO_rotated_unfiltered_new.py).*)
(*                                                                         *)
(* Labelled arrays (xarray.DataArray) are modelled as their values plus    *)
(* their coordinate labels.  A floating-point value is either defined,     *)
(* <<v>> with v an integer, or NaN, the empty tuple.                       *)
(***************************************************************************)
EXTENDS Integers, Sequences, FiniteSets, TLC

VARIABLES
    pc,        \* position of the run that the specification follows
    raised,    \* the exception that ended it, "" while there is none
    \* prepare_data_for_eeof (one call)
    data, tau, embedding, time_dim_found,
    n_times_original, shifted_data_list, X_extended, X_trimmed,
    \* MISO_calculations.py: dates, names and output files
    input_date, latest_thursday_date, forecast_date, initial,
    series_name, combined_miso, file_path, files,
    \* Plotting_MISO_rotated_unfiltered_new.py: dates, names and look-ups
    plot_latest_thursday_date, plot_forecast_date, plot_initial,
    plot_file_path, plot_n, plot_data,
    \* Plotting_MISO_rotated_unfiltered_new.py: the ensemble mean
    miso_total, miso_average,
    members_present, members_sum,  \* per mode and date: how many of the series
                                   \* read so far have a value, and their sum
    \* MISO_calculations.py: the anomaly loops
    precip_clim_file,      \* the precipitation climatology as read from its file
    precip_clim, olr_clim_grouped, olr_clim,
    forecast_grid,         \* the latitude axis of each (ini, member) forecast file
    forecast_last_day,     \* the files hold the days ini .. ini + forecast_last_day
    iter,                  \* (ini, member) iterations of the running loop done
    precip_forecast_anom, olr_forecast_anom,
    \* MISO_calculations.py: the scores of one (ini, member) pair
    precip_lag, eeofs, miso_scores_std,
    precip_concat, precip_miso_lagged,
    raw_scores,            \* the sum of the products, before the division
    miso_scores, miso1_score, miso2_score

embedVars == <<data, tau, embedding, time_dim_found,
               n_times_original, shifted_data_list, X_extended, X_trimmed>>

calcNameVars == <<input_date, latest_thursday_date, forecast_date, initial,
                  series_name, combined_miso, file_path, files>>

plotNameVars == <<plot_latest_thursday_date, plot_forecast_date, plot_initial,
                  plot_file_path, plot_n, plot_data>>

nameVars == <<calcNameVars, plotNameVars>>

meanVars == <<miso_total, miso_average, members_present, members_sum>>

anomVars == <<precip_clim_file, precip_clim, olr_clim_grouped, olr_clim,
              forecast_grid, forecast_last_day, iter,
              precip_forecast_anom, olr_forecast_anom>>

scoreVars == <<precip_lag, eeofs, miso_scores_std, precip_concat,
               precip_miso_lagged, raw_scores, miso_scores, miso1_score, miso2_score>>

vars == <<pc, raised, embedVars, nameVars, meanVars, anomVars, scoreVars>>

\* the variables each specification leaves alone
notEmbed == <<nameVars, meanVars, anomVars, scoreVars>>

notName == <<embedVars, meanVars, anomVars, scoreVars>>

notAnom == <<embedVars, meanVars, scoreVars, series_name, combined_miso, file_path,
             files, plotNameVars>>

notMean == <<embedVars, anomVars, scoreVars, latest_thursday_date, forecast_date,
            initial, series_name, combined_miso, file_path, files>>

notScore == <<embedVars, nameVars, meanVars, anomVars>>

-----------------------------------------------------------------------------
(* Bounds of the model *)

MaxLen == 3          \* longest input series of a prepare_data_for_eeof call
MaxTau == 2          \* largest lag step tried (the smallest is -1)
MaxEmbedding == 3    \* largest embedding dimension tried (the smallest is 0)
MaxVal == 1          \* defined sample values are 0..MaxVal

-----------------------------------------------------------------------------
(* Floating-point values *)

NaN == <<>>

Def(v) == <<v>>

IsNaN(a) == a = NaN

Floats == {Def(v) : v \in 0..MaxVal} \cup {NaN}

\* every series of at most n samples
SeriesUpTo(n) == UNION {[1..l -> Floats] : l \in 0..n}

AllDefined(s) == \A t \in 1..Len(s) : ~IsNaN(s[t])

-----------------------------------------------------------------------------
(* The state of the parts a specification does not run *)

EmbedIdle ==
    /\ data = <<>> /\ tau = 0 /\ embedding = 0 /\ time_dim_found = FALSE
    /\ n_times_original = 0 /\ shifted_data_list = <<>>
    /\ X_extended = [values |-> <<>>, embedding |-> <<>>]
    /\ X_trimmed = [values |-> <<>>, embedding |-> <<>>]

NameIdle ==
    /\ input_date = <<>> /\ latest_thursday_date = 0 /\ forecast_date = <<>>
    /\ initial = <<>> /\ series_name = {} /\ combined_miso = <<>>
    /\ file_path = <<>> /\ files = {}
    /\ plot_latest_thursday_date = 0 /\ plot_forecast_date = <<>>
    /\ plot_initial = <<>> /\ plot_file_path = <<>> /\ plot_n = 0
    /\ plot_data = <<>>

MeanIdle ==
    /\ miso_total = <<>> /\ miso_average = <<>>
    /\ members_present = <<>> /\ members_sum = <<>>

AnomIdle ==
    /\ precip_clim_file = <<>> /\ precip_clim = <<>>
    /\ olr_clim_grouped = <<>> /\ olr_clim = <<>>
    /\ forecast_grid = <<>> /\ forecast_last_day = 0 /\ iter = 0
    /\ precip_forecast_anom = <<>> /\ olr_forecast_anom = <<>>

ScoreIdle ==
    /\ precip_lag = <<>> /\ eeofs = <<>> /\ miso_scores_std = <<>>
    /\ precip_concat = <<>> /\ precip_miso_lagged = <<>>
    /\ raw_scores = <<>> /\ miso_scores = <<>>
    /\ miso1_score = <<>> /\ miso2_score = <<>>

PlotNameIdle ==
    /\ plot_latest_thursday_date = 0 /\ plot_forecast_date = <<>>
    /\ plot_initial = <<>> /\ plot_file_path = <<>> /\ plot_n = 0
    /\ plot_data = <<>>

-----------------------------------------------------------------------------
(* prepare_data_for_eeof *)

\* np.arange(embedding) * tau, as a sequence (index k+1 holds lag k)
Shifts(emb, ta) == [k \in 1..emb |-> (k - 1) * ta]

\* a shift of +i: sample t takes the value of sample t-i
ShiftCopy_Backward(d, i) ==
    [t \in 1..Len(d) |-> IF t - i >= 1 /\ t - i <= Len(d) THEN d[t - i] ELSE NaN]

\* data.shift({time_dim: -i}): sample t takes the value of sample t+i, the
\* samples shifted in from beyond either end are NaN
ShiftCopy(d, i) ==
    [t \in 1..Len(d) |-> IF t + i >= 1 /\ t + i <= Len(d) THEN d[t + i] ELSE NaN]

NSamplesCut_OneCopyShort(emb, ta) == (emb - 2) * ta

NSamplesCut_PerCopy(emb, ta) == emb * ta

\* n_samples_cut
NSamplesCut(emb, ta) == (emb - 1) * ta

\* X_extended.isel({time_dim: slice(None, -n)}) on every lagged copy, n > 0
IselCutTail(X, n) ==
    [k \in 1..Len(X) |-> SubSeq(X[k], 1, Len(X[k]) - n)]

\* the three argument checks at the head of the function; "" when they pass
ArgError(emb, ta, found) ==
    IF emb < 1 THEN "ValueError: Embedding dimension must be at least 1."
    ELSE IF ta < 0 THEN "ValueError: Time lag tau cannot be negative."
    ELSE IF ~found THEN "ValueError: Time dimension not found"
    ELSE ""

EmbedInit ==
    /\ data \in SeriesUpTo(MaxLen)
    /\ tau \in -1..MaxTau
    /\ embedding \in 0..MaxEmbedding
    /\ time_dim_found \in BOOLEAN
    /\ pc = "validate"
    /\ n_times_original = 0
    /\ shifted_data_list = <<>>
    /\ X_extended = [values |-> <<>>, embedding |-> <<>>]
    /\ X_trimmed = [values |-> <<>>, embedding |-> <<>>]
    /\ raised = ""
    /\ NameIdle /\ MeanIdle /\ AnomIdle /\ ScoreIdle

\* argument checks and n_times_original
Validate ==
    /\ pc = "validate"
    /\ raised' = ArgError(embedding, tau, time_dim_found)
    /\ IF raised' # ""
       THEN /\ pc' = "raised"
            /\ UNCHANGED n_times_original
       ELSE /\ pc' = "shift"
            /\ n_times_original' = Len(data)
    /\ UNCHANGED <<data, tau, embedding, time_dim_found,
                   shifted_data_list, X_extended, X_trimmed, notEmbed>>

\* one iteration of `for i in shifts`
ShiftLoop ==
    /\ pc = "shift"
    /\ Len(shifted_data_list) < embedding
    /\ LET i == Shifts(embedding, tau)[Len(shifted_data_list) + 1]
       IN  shifted_data_list' = Append(shifted_data_list, ShiftCopy(data, i))
    /\ UNCHANGED <<pc, data, tau, embedding, time_dim_found,
                   n_times_original, X_extended, X_trimmed, raised, notEmbed>>

\* xr.concat(..., dim="embedding") and assign_coords(embedding=shifts)
Concat ==
    /\ pc = "shift"
    /\ Len(shifted_data_list) = embedding
    /\ X_extended' = [values |-> shifted_data_list,
                      embedding |-> Shifts(embedding, tau)]
    /\ pc' = "trim"
    /\ UNCHANGED <<data, tau, embedding, time_dim_found,
                   n_times_original, shifted_data_list, X_trimmed, raised, notEmbed>>

\* the trimming of the tail, or the error for a cut that leaves nothing
Trim ==
    /\ pc = "trim"
    /\ LET n_samples_cut == NSamplesCut(embedding, tau)
       IN  IF n_samples_cut > 0
           THEN IF n_samples_cut >= n_times_original
                THEN /\ raised' = "ValueError: Cannot cut samples"
                     /\ pc' = "raised"
                     /\ UNCHANGED X_trimmed
                ELSE /\ X_trimmed' =
                          [X_extended EXCEPT
                             !.values = IselCutTail(X_extended.values, n_samples_cut)]
                     /\ pc' = "returned"
                     /\ UNCHANGED raised
           ELSE IF n_samples_cut = 0
           THEN /\ X_trimmed' = X_extended
                /\ pc' = "returned"
                /\ UNCHANGED raised
           ELSE /\ raised' = "ValueError: Internal error"
                /\ pc' = "raised"
                /\ UNCHANGED X_trimmed
    /\ UNCHANGED <<data, tau, embedding, time_dim_found,
                   n_times_original, shifted_data_list, X_extended, notEmbed>>

EmbedNext == Validate \/ ShiftLoop \/ Concat \/ Trim

SpecEmbed == EmbedInit /\ [][EmbedNext]_vars

-----------------------------------------------------------------------------
(* Dates: datetime.strptime, date.weekday, timedelta and strftime.  A date  *)
(* is its proleptic Gregorian ordinal (1 January of year 1 is day 1); a     *)
(* string is the sequence of its characters.                                *)

FirstYear == 2023    \* the input dates tried lie in FirstYear ..
NumYears == 2        \* .. FirstYear + NumYears - 1

DigitChars == <<"0", "1", "2", "3", "4", "5", "6", "7", "8", "9">>

IsDigit(c) == \E n \in 1..10 : DigitChars[n] = c

DigitOf(c) == (CHOOSE n \in 1..10 : DigitChars[n] = c) - 1

RECURSIVE ParseInt(_)
ParseInt(cs) ==
    IF cs = <<>> THEN 0
    ELSE 10 * ParseInt(SubSeq(cs, 1, Len(cs) - 1)) + DigitOf(cs[Len(cs)])

\* n in decimal, zero-padded to at least w characters (%Y, %m, %d of strftime)
RECURSIVE Pad(_, _)
Pad(n, w) ==
    IF w <= 1 /\ n < 10 THEN <<DigitChars[n + 1]>>
    ELSE Pad(n \div 10, w - 1) \o <<DigitChars[(n % 10) + 1]>>

IsLeap(y) == y % 4 = 0 /\ (y % 100 # 0 \/ y % 400 = 0)

DaysInMonth(y, m) ==
    IF m = 2 THEN (IF IsLeap(y) THEN 29 ELSE 28)
    ELSE IF m \in {4, 6, 9, 11} THEN 30 ELSE 31

DaysBeforeYear(y) ==
    LET p == y - 1 IN p * 365 + (p \div 4) - (p \div 100) + (p \div 400)

DaysBeforeMonth(y, m) ==
    <<0, 31, 59, 90, 120, 151, 181, 212, 243, 273, 304, 334>>[m]
    + (IF m > 2 /\ IsLeap(y) THEN 1 ELSE 0)

Ymd2Ord(y, m, d) == DaysBeforeYear(y) + DaysBeforeMonth(y, m) + d

\* the year, month and day of an ordinal, as datetime computes them
Ord2Ymd(o) ==
    LET n0 == o - 1
        n400 == n0 \div 146097
        r400 == n0 % 146097
        n100 == r400 \div 36524
        r100 == r400 % 36524
        n4 == r100 \div 1461
        r4 == r100 % 1461
        n1 == r4 \div 365
        n == r4 % 365
        year == n400 * 400 + 1 + n100 * 100 + n4 * 4 + n1
    IN  IF n1 = 4 \/ n100 = 4
        THEN <<year - 1, 12, 31>>
        ELSE LET guess == (n + 50) \div 32
                 month == IF DaysBeforeMonth(year, guess) > n
                          THEN guess - 1 ELSE guess
             IN  <<year, month, n - DaysBeforeMonth(year, month) + 1>>

\* date.weekday(): Monday is 0, Thursday is 3
Weekday(o) == (o + 6) % 7

\* datetime.strptime(s, '%Y%m%d'): the ordinal, or 0 for the ValueError
StrptimeYmd(s) ==
    IF Len(s) # 8 \/ \E i \in 1..Len(s) : ~IsDigit(s[i]) THEN 0
    ELSE LET y == ParseInt(SubSeq(s, 1, 4))
             m == ParseInt(SubSeq(s, 5, 6))
             d == ParseInt(SubSeq(s, 7, 8))
         IN  IF y >= 1 /\ m \in 1..12 /\ d >= 1 /\ d <= DaysInMonth(y, m)
             THEN Ymd2Ord(y, m, d) ELSE 0

\* strftime('%Y%m%d')
StrftimeYmd(o) ==
    LET ymd == Ord2Ymd(o) IN Pad(ymd[1], 4) \o Pad(ymd[2], 2) \o Pad(ymd[3], 2)

\* strftime("%Y%m%dT0000Z")
StrftimeStamp(o) == StrftimeYmd(o) \o <<"T", "0", "0", "0", "0", "Z">>

\* strptime(s, "%Y%m%dT%H%MZ") of MISO_calculations.py: the ordinal of the
\* date (the hour and minute are read and play no part), 0 for the ValueError
StrptimeStampHM(s) ==
    IF Len(s) # 14 THEN 0
    ELSE IF s[9] # "T" \/ s[14] # "Z" THEN 0
    ELSE IF \E i \in 10..13 : ~IsDigit(s[i]) THEN 0
    ELSE IF ParseInt(SubSeq(s, 10, 11)) > 23 \/ ParseInt(SubSeq(s, 12, 13)) > 59 THEN 0
    ELSE StrptimeYmd(SubSeq(s, 1, 8))

\* strptime(s, "%Y%m%dT0000Z") of the plotting script
StrptimeStampLiteral(s) ==
    IF Len(s) # 14 THEN 0
    ELSE IF SubSeq(s, 9, 14) # <<"T", "0", "0", "0", "0", "Z">> THEN 0
    ELSE StrptimeYmd(SubSeq(s, 1, 8))

\* s[:n]
Prefix(s, n) == SubSeq(s, 1, IF n < Len(s) THEN n ELSE Len(s))

DaysSinceThursday_FromFriday(o) == (Weekday(o) - 4) % 7

\* days_since_thursday = (today.weekday() - 3) % 7
DaysSinceThursday(o) == (Weekday(o) - 3) % 7

\* get_latest_thursday, on the parsed date
LatestThursday(today) ==
    IF Weekday(today) = 3 THEN today ELSE today - DaysSinceThursday(today)

\* range(4, 0, -1)
InitialOffsets == <<4, 3, 2, 1>>

members == <<"mem1", "mem2", "mem3", "mem4">>

\* every YYYYMMDD string of a year tried: months 01..12, days 01..31
InputDates ==
    {Pad(y, 4) \o Pad(m, 2) \o Pad(d, 2) :
        y \in FirstYear..(FirstYear + NumYears - 1), m \in 1..12, d \in 1..31}

-----------------------------------------------------------------------------
(* Output names of MISO_calculations.py and the look-ups of the renderer *)

ModeTag(mode) == IF mode = 1 THEN "MISO1_" ELSE "MISO2_"

\* f'MISO1_{ini[:8]}_{member}', the .name given to a score series
ScoreName(mode, ini, member) ==
    <<ModeTag(mode)>> \o Prefix(ini, 8) \o <<"_", member>>

DatasetKey_DateOnly(mode, ini, member) == ScoreName(mode, ini, member)

\* f'MISO1_{ini}_{member}', the key of a series in the combined Dataset
DatasetKey(mode, ini, member) == <<ModeTag(mode)>> \o ini \o <<"_", member>>

\* f'MISO1_{ini}_{member}' of the plotting script
PlotKey(mode, ini, member) == <<ModeTag(mode)>> \o ini \o <<"_", member>>

\* os.path.join(directory, f'MISO1_CNCUM_IC_{initial[0][:8]}-{initial[-1][:8]}_FC_{forecast_date[:8]}.nc')
FilePath(mode, ini, fc) ==
    <<"~/forecast/MISOs/", ModeTag(mode), "CNCUM_IC_">> \o Prefix(ini[1], 8)
    \o <<"-">> \o Prefix(ini[Len(ini)], 8) \o <<"_FC_">> \o Prefix(fc, 8) \o <<".nc">>

\* the same expression in the plotting script
PlotFilePath(mode, ini, fc) ==
    <<"~/forecast/MISOs/", ModeTag(mode), "CNCUM_IC_">> \o Prefix(ini[1], 8)
    \o <<"-">> \o Prefix(ini[Len(ini)], 8) \o <<"_FC_">> \o Prefix(fc, 8) \o <<".nc">>

\* the (ini, member) pairs in loop order: ini outer, member inner
PairAt(ini, n) ==
    [ini |-> ini[((n - 1) \div Len(members)) + 1],
     member |-> members[((n - 1) % Len(members)) + 1]]

NumPairs(ini) == Len(ini) * Len(members)

\* a dict written key by key: a later write of the same key replaces the entry
DictPut(dict, key, value) ==
    {e \in dict : e.key # key} \cup {[key |-> key, value |-> value]}

DictKeys(dict) == {e.key : e \in dict}

DictGet(dict, key) == (CHOOSE e \in dict : e.key = key).value

\* xr.Dataset({f'MISO<mode>_{ini}_{member}': score[ini][member] ...}): the
\* series of the pairs 1..n under their keys, in loop order
RECURSIVE CombinedDataset(_, _, _, _)
CombinedDataset(mode, ini, names, n) ==
    IF n = 0 THEN {}
    ELSE LET p == PairAt(ini, n)
         IN  DictPut(CombinedDataset(mode, ini, names, n - 1),
                     DatasetKey(mode, p.ini, p.member),
                     [name |-> DictGet(names, <<mode, p.ini, p.member>>),
                      mode |-> mode, ini |-> p.ini, member |-> p.member])

NameInit ==
    /\ input_date \in InputDates
    /\ pc = "calc_thursday"
    /\ raised = ""
    /\ latest_thursday_date = 0 /\ forecast_date = <<>>
    /\ initial = <<>> /\ series_name = {} /\ combined_miso = <<>>
    /\ file_path = <<>> /\ files = {}
    /\ plot_latest_thursday_date = 0 /\ plot_forecast_date = <<>>
    /\ plot_initial = <<>> /\ plot_file_path = <<>> /\ plot_n = 0
    /\ plot_data = <<>>
    /\ EmbedIdle /\ MeanIdle /\ AnomIdle /\ ScoreIdle

\* latest_thursday_date = get_latest_thursday(input_date)
CalcLatestThursday ==
    /\ pc = "calc_thursday"
    /\ LET today == StrptimeYmd(input_date)
       IN  IF today = 0
           THEN /\ raised' = "ValueError: time data does not match format"
                /\ pc' = "raised"
                /\ UNCHANGED latest_thursday_date
           ELSE /\ latest_thursday_date' = LatestThursday(today)
                /\ pc' = "calc_forecast_date"
                /\ UNCHANGED raised
    /\ UNCHANGED <<input_date, forecast_date, initial, series_name,
                   combined_miso, file_path, files, plotNameVars, notName>>

\* forecast_date = latest_thursday_date.strftime("%Y%m%dT0000Z")
CalcForecastDate ==
    /\ pc = "calc_forecast_date"
    /\ forecast_date' = StrftimeStamp(latest_thursday_date)
    /\ pc' = "calc_initial"
    /\ UNCHANGED <<raised, input_date, latest_thursday_date, initial, series_name,
                   combined_miso, file_path, files, plotNameVars, notName>>

\* initial = [(strptime(forecast_date) - timedelta(days=i)).strftime(...) ...]
CalcInitial ==
    /\ pc = "calc_initial"
    /\ initial' = [j \in 1..Len(InitialOffsets) |->
                     StrftimeStamp(StrptimeStampHM(forecast_date) - InitialOffsets[j])]
    /\ pc' = "calc_scores"
    /\ UNCHANGED <<raised, input_date, latest_thursday_date, forecast_date,
                   series_name, combined_miso, file_path, files,
                   plotNameVars, notName>>

\* one (ini, member) iteration of the score loop: the two series get their names
CalcScoreNames ==
    /\ pc = "calc_scores"
    /\ Cardinality(series_name) < 2 * NumPairs(initial)
    /\ LET p == PairAt(initial, (Cardinality(series_name) \div 2) + 1)
       IN  series_name' =
             DictPut(DictPut(series_name, <<1, p.ini, p.member>>,
                             ScoreName(1, p.ini, p.member)),
                     <<2, p.ini, p.member>>, ScoreName(2, p.ini, p.member))
    /\ UNCHANGED <<pc, raised, input_date, latest_thursday_date, forecast_date,
                   initial, combined_miso, file_path, files, plotNameVars, notName>>

\* combined_miso1 and combined_miso2
CalcCombine ==
    /\ pc = "calc_scores"
    /\ Cardinality(series_name) = 2 * NumPairs(initial)
    /\ combined_miso' =
          [mode \in 1..2 |->
              CombinedDataset(mode, initial, series_name, NumPairs(initial))]
    /\ pc' = "calc_write"
    /\ UNCHANGED <<raised, input_date, latest_thursday_date, forecast_date,
                   initial, series_name, file_path, files, plotNameVars, notName>>

\* file_path_1, file_path_2, the removal of an older file and to_netcdf
CalcWrite ==
    /\ pc = "calc_write"
    /\ file_path' = [mode \in 1..2 |-> FilePath(mode, initial, forecast_date)]
    /\ files' = DictPut(DictPut(files, file_path'[1], combined_miso[1]),
                        file_path'[2], combined_miso[2])
    /\ pc' = "plot_thursday"
    /\ UNCHANGED <<raised, input_date, latest_thursday_date, forecast_date,
                   initial, series_name, combined_miso, plotNameVars, notName>>

\* the plotting script, run on the same input date: its own
\* get_latest_thursday and forecast_date
PlotLatestThursday ==
    /\ pc = "plot_thursday"
    /\ LET today == StrptimeYmd(input_date)
       IN  /\ plot_latest_thursday_date' = LatestThursday(today)
           /\ plot_forecast_date' = StrftimeStamp(plot_latest_thursday_date')
    /\ pc' = "plot_initial"
    /\ UNCHANGED <<raised, calcNameVars, plot_initial, plot_file_path, plot_n,
                   plot_data, notName>>

\* its initial list and file paths
PlotInitial ==
    /\ pc = "plot_initial"
    /\ plot_initial' =
          [j \in 1..Len(InitialOffsets) |->
              StrftimeStamp(StrptimeStampLiteral(plot_forecast_date) - InitialOffsets[j])]
    /\ plot_file_path' =
          [mode \in 1..2 |-> PlotFilePath(mode, plot_initial', plot_forecast_date)]
    /\ pc' = "plot_read"
    /\ UNCHANGED <<raised, calcNameVars, plot_latest_thursday_date,
                   plot_forecast_date, plot_n, plot_data, notName>>

\* xr.open_dataset(path)[key]: the series, or the error
OpenSeries(fs, path, key) ==
    IF path \notin DictKeys(fs) THEN [error |-> "FileNotFoundError"]
    ELSE IF key \notin DictKeys(DictGet(fs, path)) THEN [error |-> "KeyError"]
    ELSE [error |-> "", series |-> DictGet(DictGet(fs, path), key)]

\* one (ini, member) iteration of the ensemble-mean loop: the two look-ups
PlotRead ==
    /\ pc = "plot_read"
    /\ plot_n < NumPairs(plot_initial)
    /\ LET p == PairAt(plot_initial, plot_n + 1)
           miso1_data == OpenSeries(files, plot_file_path[1], PlotKey(1, p.ini, p.member))
           miso2_data == OpenSeries(files, plot_file_path[2], PlotKey(2, p.ini, p.member))
       IN  IF miso1_data.error # "" \/ miso2_data.error # ""
           THEN /\ raised' = IF miso1_data.error # ""
                             THEN miso1_data.error ELSE miso2_data.error
                /\ pc' = "raised"
                /\ UNCHANGED <<plot_n, plot_data>>
           ELSE /\ plot_data' = Append(plot_data,
                                       <<miso1_data.series, miso2_data.series>>)
                /\ plot_n' = plot_n + 1
                /\ UNCHANGED <<pc, raised>>
    /\ UNCHANGED <<calcNameVars, plot_latest_thursday_date, plot_forecast_date,
                   plot_initial, plot_file_path, notName>>

PlotReadDone ==
    /\ pc = "plot_read"
    /\ plot_n = NumPairs(plot_initial)
    /\ pc' = "plot_done"
    /\ UNCHANGED <<raised, nameVars, notName>>

NameNext ==
    \/ CalcLatestThursday \/ CalcForecastDate \/ CalcInitial \/ CalcScoreNames
    \/ CalcCombine \/ CalcWrite
    \/ PlotLatestThursday \/ PlotInitial \/ PlotRead \/ PlotReadDone

SpecName == NameInit /\ [][NameNext]_vars

-----------------------------------------------------------------------------
(* The ensemble mean of the plotting script.  The series of one file share  *)
(* the file's time axis; a series with no value at a date holds NaN there.  *)

\* a sum that passes over NaN, as a NaN-skipping mean would add
AddFloat_SkipNaN(a, b) ==
    IF IsNaN(a) THEN b ELSE IF IsNaN(b) THEN a ELSE Def(a[1] + b[1])

\* a + b on floats: NaN if either is NaN
AddFloat(a, b) == IF IsNaN(a) \/ IsNaN(b) THEN NaN ELSE Def(a[1] + b[1])

\* a / n on a float and a count: the quotient <<numerator, denominator>>
DivFloat(a, n) == IF IsNaN(a) THEN NaN ELSE <<a[1], n>>

\* total += series, date by date (the first `+=` adds to the scalar 0)
AddSeries(n, total, series) ==
    [d \in 1..Len(series) |->
        AddFloat(IF n = 0 THEN Def(0) ELSE total[d], series[d])]

\* num_entries = len(initial) * len(members)
NumEntries(ini) == Len(ini) * Len(members)

\* the (MISO1, MISO2) series a member's entry of the two files may hold, over
\* three dates
MemberSeries ==
    { <<<<Def(1), Def(2), Def(3)>>, <<Def(0), Def(1), Def(0)>>>>,
      <<<<Def(3), Def(4), Def(5)>>, <<Def(2), Def(1), Def(2)>>>>,
      <<<<Def(3), NaN,    Def(5)>>, <<Def(2), NaN,    Def(2)>>>>,
      <<<<NaN,    Def(2), Def(3)>>, <<Def(0), Def(1), NaN>>>> }

NumDates == Len((CHOOSE m \in MemberSeries : TRUE)[1])

\* the state of the plotting script before its mean loop, for one input date
MeanInit ==
    /\ input_date = <<"2", "0", "2", "4", "0", "6", "1", "3">>
    /\ plot_latest_thursday_date = LatestThursday(StrptimeYmd(input_date))
    /\ plot_forecast_date = StrftimeStamp(plot_latest_thursday_date)
    /\ plot_initial =
          [j \in 1..Len(InitialOffsets) |->
              StrftimeStamp(StrptimeStampLiteral(plot_forecast_date) - InitialOffsets[j])]
    /\ plot_file_path =
          [mode \in 1..2 |-> PlotFilePath(mode, plot_initial, plot_forecast_date)]
    /\ plot_n = 0 /\ plot_data = <<>>
    /\ miso_total = <<<<>>, <<>>>>
    /\ miso_average = <<>>
    /\ members_present = [mode \in 1..2 |-> [d \in 1..NumDates |-> 0]]
    /\ members_sum = [mode \in 1..2 |-> [d \in 1..NumDates |-> 0]]
    /\ pc = "mean_loop"
    /\ raised = ""
    /\ latest_thursday_date = 0 /\ forecast_date = <<>>
    /\ initial = <<>> /\ series_name = {} /\ combined_miso = <<>>
    /\ file_path = <<>> /\ files = {}
    /\ EmbedIdle /\ AnomIdle /\ ScoreIdle

\* one (ini, member) iteration: both series are read and added to the totals
MeanAdd ==
    /\ pc = "mean_loop"
    /\ plot_n < NumPairs(plot_initial)
    /\ \E m \in MemberSeries :
        /\ plot_data' = m
        /\ miso_total' = [mode \in 1..2 |-> AddSeries(plot_n, miso_total[mode], m[mode])]
        /\ members_present' =
              [mode \in 1..2 |-> [d \in 1..NumDates |->
                  members_present[mode][d] + (IF IsNaN(m[mode][d]) THEN 0 ELSE 1)]]
        /\ members_sum' =
              [mode \in 1..2 |-> [d \in 1..NumDates |->
                  members_sum[mode][d] + (IF IsNaN(m[mode][d]) THEN 0 ELSE m[mode][d][1])]]
    /\ plot_n' = plot_n + 1
    /\ UNCHANGED <<pc, raised, input_date, plot_latest_thursday_date, plot_forecast_date,
                   plot_initial, plot_file_path, miso_average, notMean>>

\* miso1_average, miso2_average
MeanDivide ==
    /\ pc = "mean_loop"
    /\ plot_n = NumPairs(plot_initial)
    /\ miso_average' =
          [mode \in 1..2 |-> [d \in 1..Len(miso_total[mode]) |->
              DivFloat(miso_total[mode][d], NumEntries(plot_initial))]]
    /\ pc' = "mean_done"
    /\ UNCHANGED <<raised, input_date, plotNameVars, miso_total, members_present,
                   members_sum, notMean>>

MeanNext == MeanAdd \/ MeanDivide

SpecMean == MeanInit /\ [][MeanNext]_vars

-----------------------------------------------------------------------------
(* The anomaly loops of MISO_calculations.py.  A series is                  *)
(* [time, lat, val]: the days of its time axis (ordinals), the labels of    *)
(* its latitude axis and a value for every (time position, latitude).  A    *)
(* climatology is [file, dayofyear, lat, src]: its days of year, its        *)
(* latitude labels and, for each label, the latitude of the file whose      *)
(* column of values it carries (a file's own table carries its own          *)
(* columns).  Longitude is averaged out on input.                           *)

SubFloat(a, b) == IF IsNaN(a) \/ IsNaN(b) THEN NaN ELSE Def(a[1] - b[1])

Abs(i) == IF i < 0 THEN 0 - i ELSE i

\* time.dt.dayofyear
DayOfYear(o) == o - DaysBeforeYear(Ord2Ymd(o)[1])

\* the label of `lat` nearest to x; of two equally near the larger
\* (Index.get_indexer(method='nearest'))
Nearest(lat, x) ==
    CHOOSE y \in lat : \A z \in lat :
        Abs(y - x) < Abs(z - x) \/ (Abs(y - x) = Abs(z - x) /\ y >= z)

\* the value of a climatology file at a day of year and a latitude
ClimValue(file, d, x) == Def((IF file = "precip" THEN 2 * x ELSE x) + (d % 2))

\* the value of a table at a day of year and one of its latitude labels
ClimAt(clim, d, x) == ClimValue(clim.file, d, clim.src[x])

\* clim.reindex(lat=target, method='nearest'): every target label takes the
\* column of the nearest label of the table
ReindexNearest(clim, target) ==
    [file |-> clim.file,
     dayofyear |-> clim.dayofyear,
     lat |-> target,
     src |-> [x \in target |-> clim.src[Nearest(clim.lat, x)]]]

\* a selection that takes the table's last day for a day of year beyond it
SelDayOfYear_Clamped(clim, time) ==
    [error |-> "",
     series |-> [time |-> time,
                 lat |-> clim.lat,
                 val |-> [t \in 1..Len(time), x \in clim.lat |->
                            ClimAt(clim,
                                   IF DayOfYear(time[t]) \in clim.dayofyear
                                   THEN DayOfYear(time[t])
                                   ELSE Cardinality(clim.dayofyear), x)]]]

\* clim.sel(dayofyear=day_of_year): the profile of each day of the series, or
\* the KeyError for a day of year the table does not hold
SelDayOfYear(clim, time) ==
    IF \E t \in 1..Len(time) : DayOfYear(time[t]) \notin clim.dayofyear
    THEN [error |-> "KeyError"]
    ELSE [error |-> "",
          series |-> [time |-> time,
                      lat |-> clim.lat,
                      val |-> [t \in 1..Len(time), x \in clim.lat |->
                                 ClimAt(clim, DayOfYear(time[t]), x)]]]

\* the latitudes an arithmetic operation keeps: those both operands have
\* (xarray aligns the operands of a binary operation by an inner join)
SharedLat(a, b) == a.lat \cap b.lat

\* a - b for two series on the same time axis
SubSeries(a, b) ==
    [time |-> a.time,
     lat |-> SharedLat(a, b),
     val |-> [t \in 1..Len(a.time), x \in SharedLat(a, b) |->
                SubFloat(a.val[t, x], b.val[t, x])]]

\* series.sel(time=slice(lo, hi)): the samples of the days lo .. hi
RECURSIVE DaysWithin(_, _, _)
DaysWithin(time, lo, hi) ==
    IF time = <<>> THEN <<>>
    ELSE (IF lo <= Head(time) /\ Head(time) <= hi THEN <<Head(time)>> ELSE <<>>)
         \o DaysWithin(Tail(time), lo, hi)

\* a slice bound: (strptime(ini) + timedelta(days=k)).strftime("%Y%m%d"), read
\* back as a date by the selection
SliceDay(ini, k) == StrptimeYmd(StrftimeYmd(StrptimeStampHM(ini) + k))

\* result[ini][member] = value: the entries in the order of their first
\* assignment, a later assignment of the same key replacing the value
ResultPut(result, key, value) ==
    IF \E i \in 1..Len(result) : result[i].key = key
    THEN [i \in 1..Len(result) |->
            IF result[i].key = key THEN [key |-> key, value |-> value] ELSE result[i]]
    ELSE Append(result, [key |-> key, value |-> value])

\* the original latitude axis of the two climatology tables
ClimGrid == {0, 3}

\* the latitude axes a forecast file may have
Grids == {{0, 3}, {0, 1}, {2, 3}}

\* the precipitation climatology of n days of year, as read from its file
ClimTable(n) ==
    [file |-> "precip",
     dayofyear |-> 1..n,
     lat |-> ClimGrid,
     src |-> [x \in ClimGrid |-> x]]

\* the value of a forecast file at a day and a latitude
ForecastValue(o, x) == Def((o + x) % 5)

\* olr_clim_grouped: the n_days samples of the OLR climatology, dated from
\* 2000-01-01 when there are 366 of them and from 2001-01-01 otherwise, and
\* grouped by day of year
OlrClimGrouped(n_days) ==
    LET start_date == IF n_days = 366 THEN Ymd2Ord(2000, 1, 1) ELSE Ymd2Ord(2001, 1, 1)
        correct_times == [i \in 1..n_days |-> start_date + i - 1]
        doys == {DayOfYear(correct_times[i]) : i \in 1..n_days}
    IN  [file |-> "olr",
         dayofyear |-> doys,
         lat |-> ClimGrid,
         src |-> [x \in ClimGrid |-> x]]

\* a window cut at the same offsets from every initialization
ForecastWindow_SameOffsets(ini, num, grid, lastDay) ==
    LET first == StrptimeStampHM(ini)
        fileTime == [i \in 1..(lastDay + 1) |-> first + i - 1]
        time == DaysWithin(fileTime, SliceDay(ini, 4), SliceDay(ini, 35))
    IN  [time |-> time,
         lat |-> grid,
         val |-> [t \in 1..Len(time), x \in grid |-> ForecastValue(time[t], x)]]

\* the forecast of pair n as selected from its file: the days lo .. hi that
\* the file holds, on the file's latitude axis
ForecastWindow(ini, num, grid, lastDay) ==
    LET first == StrptimeStampHM(ini)
        fileTime == [i \in 1..(lastDay + 1) |-> first + i - 1]
        time == DaysWithin(fileTime, SliceDay(ini, 4 - num), SliceDay(ini, 35 - num))
    IN  [time |-> time,
         lat |-> grid,
         val |-> [t \in 1..Len(time), x \in grid |-> ForecastValue(time[t], x)]]

\* the files that may be on another grid than the rest: one of each
\* initialization, of a different member each
OddFiles == {1, 6, 11, 16}

\* the latitude axes of the 16 files: all alike, or one file on another grid
GridAssignments ==
    LET n == Len(InitialOffsets) * Len(members)
    IN  {[i \in 1..n |-> g] : g \in Grids}
        \cup {[i \in 1..n |-> IF i = odd THEN h ELSE g] :
                 odd \in OddFiles, g \in Grids, h \in Grids}

\* the input date with the numbers of days of year in the precipitation and
\* in the OLR climatology: a run in June, and runs whose forecast window
\* holds 31 December of a leap year
AnomInputs ==
    { <<<<"2", "0", "2", "4", "0", "6", "1", "3">>, 366, 366>>,
      <<<<"2", "0", "2", "4", "0", "6", "1", "5">>, 365, 365>>,
      <<<<"2", "0", "2", "4", "1", "2", "2", "8">>, 366, 366>>,
      <<<<"2", "0", "2", "4", "1", "2", "2", "8">>, 366, 365>>,
      <<<<"2", "0", "2", "4", "1", "2", "2", "8">>, 365, 366>> }

\* the state of MISO_calculations.py when it enters its first loop
AnomInit ==
    /\ \E in \in AnomInputs :
          /\ input_date = in[1]
          /\ precip_clim_file = ClimTable(in[2])
          /\ olr_clim_grouped = OlrClimGrouped(in[3])
    /\ latest_thursday_date = LatestThursday(StrptimeYmd(input_date))
    /\ forecast_date = StrftimeStamp(latest_thursday_date)
    /\ initial = [j \in 1..Len(InitialOffsets) |->
                    StrftimeStamp(StrptimeStampHM(forecast_date) - InitialOffsets[j])]
    /\ precip_clim = precip_clim_file
    /\ olr_clim = olr_clim_grouped
    /\ forecast_grid \in GridAssignments
    /\ forecast_last_day \in {18, 35}
    /\ iter = 0
    /\ precip_forecast_anom = <<>> /\ olr_forecast_anom = <<>>
    /\ pc = "precip_loop"
    /\ raised = ""
    /\ series_name = {} /\ combined_miso = <<>> /\ file_path = <<>> /\ files = {}
    /\ PlotNameIdle /\ EmbedIdle /\ MeanIdle /\ ScoreIdle

\* one (ini, member) iteration of the precipitation loop
PrecipAnomaly ==
    /\ pc = "precip_loop"
    /\ iter < NumPairs(initial)
    /\ LET p == PairAt(initial, iter + 1)
           num == iter \div Len(members)
           precip_forecast == ForecastWindow(p.ini, num, forecast_grid[iter + 1],
                                             forecast_last_day)
           reindexed == ReindexNearest(precip_clim, precip_forecast.lat)
           selected == SelDayOfYear(reindexed, precip_forecast.time)
       IN  /\ precip_clim' = reindexed
           /\ IF selected.error # ""
              THEN /\ raised' = selected.error
                   /\ pc' = "raised"
                   /\ UNCHANGED <<iter, precip_forecast_anom>>
              ELSE /\ precip_forecast_anom' =
                         ResultPut(precip_forecast_anom, <<p.ini, p.member>>,
                                   SubSeries(precip_forecast, selected.series))
                   /\ iter' = iter + 1
                   /\ UNCHANGED <<pc, raised>>
    /\ UNCHANGED <<input_date, latest_thursday_date, forecast_date, initial,
                   precip_clim_file, olr_clim_grouped, olr_clim, forecast_grid,
                   forecast_last_day, olr_forecast_anom, notAnom>>

PrecipLoopDone ==
    /\ pc = "precip_loop"
    /\ iter = NumPairs(initial)
    /\ pc' = "olr_loop"
    /\ iter' = 0
    /\ UNCHANGED <<raised, input_date, latest_thursday_date, forecast_date, initial,
                   precip_clim_file, precip_clim, olr_clim_grouped, olr_clim,
                   forecast_grid, forecast_last_day,
                   precip_forecast_anom, olr_forecast_anom, notAnom>>

\* one (ini, member) iteration of the OLR loop
OlrAnomaly ==
    /\ pc = "olr_loop"
    /\ iter < NumPairs(initial)
    /\ LET p == PairAt(initial, iter + 1)
           num == iter \div Len(members)
           olr_forecast == ForecastWindow(p.ini, num, forecast_grid[iter + 1],
                                          forecast_last_day)
           selected == SelDayOfYear(olr_clim_grouped, olr_forecast.time)
       IN  /\ olr_clim' = ReindexNearest(olr_clim_grouped, olr_forecast.lat)
           /\ IF selected.error # ""
              THEN /\ raised' = selected.error
                   /\ pc' = "raised"
                   /\ UNCHANGED <<iter, olr_forecast_anom>>
              ELSE /\ olr_forecast_anom' =
                         ResultPut(olr_forecast_anom, <<p.ini, p.member>>,
                                   SubSeries(olr_forecast, selected.series))
                   /\ iter' = iter + 1
                   /\ UNCHANGED <<pc, raised>>
    /\ UNCHANGED <<input_date, latest_thursday_date, forecast_date, initial,
                   precip_clim_file, precip_clim, olr_clim_grouped, forecast_grid,
                   forecast_last_day, precip_forecast_anom, notAnom>>

OlrLoopDone ==
    /\ pc = "olr_loop"
    /\ iter = NumPairs(initial)
    /\ pc' = "anomalies_done"
    /\ UNCHANGED <<raised, input_date, latest_thursday_date, forecast_date, initial,
                   anomVars, notAnom>>

AnomNext == PrecipAnomaly \/ PrecipLoopDone \/ OlrAnomaly \/ OlrLoopDone

SpecAnom == AnomInit /\ [][AnomNext]_vars

-----------------------------------------------------------------------------
(* The scores of one (ini, member) pair in MISO_calculations.py.  The       *)
(* embedded array is [embedding, time, lat, val] with a value for every     *)
(* (lag position, time position, latitude); the eigenvectors are            *)
(* [mode, embedding, lat, val] with a value for every (mode position, lag   *)
(* position, latitude).                                                     *)

MaxForecastDays == 2   \* most days a member's forecast anomaly holds

\* a * b on floats: NaN if either is NaN
MulFloat_SignFlipped(a, b) == IF IsNaN(a) \/ IsNaN(b) THEN NaN ELSE Def(0 - a[1] * b[1])

MulFloat(a, b) == IF IsNaN(a) \/ IsNaN(b) THEN NaN ELSE Def(a[1] * b[1])

\* the days the lagged analysis holds: forecast_date-16 .. forecast_date-1
\* without its first two
LagDays == 16 - 2

\* embedding and tau of the call of prepare_data_for_eeof
ScoreEmbedding == 15

ScoreTau == 1

\* the samples of a series at one latitude, in time order
Column(s, x) == [t \in 1..Len(s.time) |-> s.val[t, x]]

\* xr.concat((a, b), dim='time'): b after a; a latitude only one of the two
\* has is kept and filled with NaN in the other (the other indexes are
\* joined outer)
ConcatTime(a, b) ==
    LET lat == a.lat \cup b.lat
        n == Len(a.time)
    IN  [time |-> a.time \o b.time,
         lat |-> lat,
         val |-> [t \in 1..(n + Len(b.time)), x \in lat |->
                    IF t <= n
                    THEN (IF x \in a.lat THEN a.val[t, x] ELSE NaN)
                    ELSE (IF x \in b.lat THEN b.val[t - n, x] ELSE NaN)]]

\* prepare_data_for_eeof(s, tau=ta, embedding=emb, time_dim='time') on a
\* series with a latitude axis: the lagged copies of every column, trimmed
PrepareDataForEeof(s, ta, emb) ==
    LET err == ArgError(emb, ta, TRUE)
        n == Len(s.time)
        shifts == Shifts(emb, ta)
        cut == NSamplesCut(emb, ta)
        kept == IF cut > 0 THEN n - cut ELSE n
    IN  IF err # "" THEN [error |-> err]
        ELSE IF cut > 0 /\ cut >= n THEN [error |-> "ValueError: Cannot cut samples"]
        ELSE IF cut < 0 THEN [error |-> "ValueError: Internal error"]
        ELSE [error |-> "",
              embedding |-> shifts,
              time |-> SubSeq(s.time, 1, kept),
              lat |-> s.lat,
              val |-> [k \in 1..emb, t \in 1..kept, x \in s.lat |->
                         ShiftCopy(Column(s, x), shifts[k])[t]]]

\* the position of a label on an axis
IndexOf(axis, label) == CHOOSE i \in 1..Len(axis) : axis[i] = label

\* the lags a product keeps: those both operands have
SharedLags(a, b) ==
    {a.embedding[i] : i \in 1..Len(a.embedding)}
        \cap {b.embedding[i] : i \in 1..Len(b.embedding)}

\* sum(...) of an array's values: NaN counts as nothing (skipna), the sum of
\* no values is 0
RECURSIVE SumSkipNaN(_)
SumSkipNaN(f) ==
    IF DOMAIN f = {} THEN 0
    ELSE LET p == CHOOSE q \in DOMAIN f : TRUE
         IN  (IF IsNaN(f[p]) THEN 0 ELSE f[p][1])
                + SumSkipNaN([q \in DOMAIN f \ {p} |-> f[q]])

\* (e * X).sum(dim=['embedding', 'lat']): per mode and time, the sum of the
\* products over the lags and latitudes both operands have
ProjectSum(e, X) ==
    LET lags == SharedLags(e, X)
        lat == SharedLat(e, X)
    IN  [m \in 1..Len(e.mode) |-> [t \in 1..Len(X.time) |->
            Def(SumSkipNaN([p \in lags \X lat |->
                    MulFloat(e.val[m, IndexOf(e.embedding, p[1]), p[2]],
                             X.val[IndexOf(X.embedding, p[1]), t, p[2]])]))]]

\* the day of the forecast of the run followed
ScoreForecastDay == Ymd2Ord(2024, 6, 13)

AnomKinds == {"zero", "one", "mixed", "gap"}

\* an anomaly of a kind at a day and a latitude
AnomValue(kind, o, x) ==
    IF kind = "zero" THEN Def(0)
    ELSE IF kind = "one" THEN Def(1)
    ELSE IF kind = "mixed" THEN Def(((o + x) % 3) - 1)
    ELSE IF o = ScoreForecastDay - 1 /\ x = 0 THEN NaN ELSE Def(1)

\* an anomaly series of a kind over the days first .. first + n - 1
AnomSeries(kind, first, n, lat) ==
    LET time == [i \in 1..n |-> first + i - 1]
    IN  [time |-> time,
         lat |-> lat,
         val |-> [t \in 1..n, x \in lat |-> AnomValue(kind, time[t], x)]]

EigenKinds == {"signed", "mixed", "gap"}

\* an eigenvector value of a kind at a mode position, a lag and a latitude
EigenValue(kind, m, k, x) ==
    IF kind = "signed" THEN (IF m = 1 THEN Def(1) ELSE Def(0 - 1))
    ELSE IF kind = "mixed" THEN Def(((m + k + x) % 3) - 1)
    ELSE IF k = 0 THEN NaN ELSE Def(2)

\* eigenvectors of a kind with the lags 0 .. n-1, on the climatology's grid
Eigenvectors(kind, n) ==
    [mode |-> <<1, 2>>,
     embedding |-> Shifts(n, ScoreTau),
     lat |-> ClimGrid,
     val |-> [m \in 1..2, k \in 1..n, x \in ClimGrid |->
                EigenValue(kind, m, Shifts(n, ScoreTau)[k], x)]]

\* the state of MISO_calculations.py before the body of its score loop runs
\* for one pair: the lagged analysis and the eigenvectors are on the
\* climatology's grid, the member's anomaly on its forecast's
ScoreInit ==
    /\ \E kind \in AnomKinds, grid \in {ClimGrid, {0, 1}}, n \in 0..MaxForecastDays :
          /\ precip_lag = AnomSeries(kind, ScoreForecastDay - LagDays, LagDays, ClimGrid)
          /\ precip_forecast_anom =
                <<[key |-> <<StrftimeStamp(ScoreForecastDay - InitialOffsets[1]),
                             members[1]>>,
                   value |-> AnomSeries(kind, ScoreForecastDay, n, grid)]>>
    /\ \E kind \in EigenKinds, n \in {ScoreEmbedding, ScoreEmbedding - 1} :
          eeofs = Eigenvectors(kind, n)
    /\ miso_scores_std \in {<<1, 1>>, <<2, 3>>}
    /\ precip_concat = <<>> /\ precip_miso_lagged = <<>>
    /\ raw_scores = <<>> /\ miso_scores = <<>>
    /\ miso1_score = <<>> /\ miso2_score = <<>>
    /\ pc = "score_concat"
    /\ raised = ""
    /\ precip_clim_file = <<>> /\ precip_clim = <<>>
    /\ olr_clim_grouped = <<>> /\ olr_clim = <<>>
    /\ forecast_grid = <<>> /\ forecast_last_day = 0 /\ iter = 0
    /\ olr_forecast_anom = <<>>
    /\ EmbedIdle /\ NameIdle /\ MeanIdle

\* precip_concat[ini][member]
ScoreConcat ==
    /\ pc = "score_concat"
    /\ precip_concat' = ConcatTime(precip_lag, precip_forecast_anom[1].value)
    /\ pc' = "score_embed"
    /\ UNCHANGED <<raised, precip_lag, eeofs, miso_scores_std, precip_miso_lagged,
                   raw_scores, miso_scores, miso1_score, miso2_score, notScore>>

\* precip_miso_lagged[ini][member]
ScoreEmbed ==
    /\ pc = "score_embed"
    /\ LET X == PrepareDataForEeof(precip_concat, ScoreTau, ScoreEmbedding)
       IN  IF X.error # ""
           THEN /\ raised' = X.error
                /\ pc' = "raised"
                /\ UNCHANGED precip_miso_lagged
           ELSE /\ precip_miso_lagged' = X
                /\ pc' = "score_project"
                /\ UNCHANGED raised
    /\ UNCHANGED <<precip_lag, eeofs, miso_scores_std, precip_concat,
                   raw_scores, miso_scores, miso1_score, miso2_score, notScore>>

\* miso_scores = (eeofs * lagged).sum(dim=['embedding', 'lat']) / miso_scores_std
ScoreProject ==
    /\ pc = "score_project"
    /\ raw_scores' = ProjectSum(eeofs, precip_miso_lagged)
    /\ miso_scores' =
          [m \in 1..Len(raw_scores') |-> [t \in 1..Len(raw_scores'[m]) |->
              DivFloat(raw_scores'[m][t], miso_scores_std[m])]]
    /\ pc' = "score_store"
    /\ UNCHANGED <<raised, precip_lag, eeofs, miso_scores_std, precip_concat,
                   precip_miso_lagged, miso1_score, miso2_score, notScore>>

\* assign_coords(time=...), miso1_score[ini][member], miso2_score[ini][member]
ScoreStore ==
    /\ pc = "score_store"
    /\ LET time == precip_forecast_anom[1].value.time
       IN  IF Len(time) # Len(precip_miso_lagged.time)
           THEN /\ raised' = "ValueError: conflicting sizes for dimension 'time'"
                /\ pc' = "raised"
                /\ UNCHANGED <<miso1_score, miso2_score>>
           ELSE /\ miso1_score' = [time |-> time, val |-> miso_scores[1]]
                /\ miso2_score' = [time |-> time, val |-> miso_scores[2]]
                /\ pc' = "scores_done"
                /\ UNCHANGED raised
    /\ UNCHANGED <<precip_lag, eeofs, miso_scores_std, precip_concat,
                   precip_miso_lagged, raw_scores, miso_scores, notScore>>

ScoreNext == ScoreConcat \/ ScoreEmbed \/ ScoreProject \/ ScoreStore

SpecScore == ScoreInit /\ [][ScoreNext]_vars

-----------------------------------------------------------------------------
(* The score loop body on the windows the script selects: one (ini, member) *)
(* pair of a run, its forecast anomaly and the lagged analysis computed     *)
(* from the dates as the script computes them.                              *)

\* the value of the analysis file at a day and a latitude
AnalysisValue(o, x) == Def((o + 2 * x) % 7)

\* series.reindex(lat=target, method='nearest'): every target label takes
\* the column of the nearest label of the series
ReindexSeries(s, target) ==
    [time |-> s.time,
     lat |-> target,
     val |-> [t \in 1..Len(s.time), x \in target |-> s.val[t, Nearest(s.lat, x)]]]

\* precip_lag_1: the analysis file of the days forecast_date-16 ..
\* forecast_date-1 without its first two samples ([2:])
PrecipLag1(fdate, grid) ==
    LET first == StrptimeYmd(StrftimeYmd(StrptimeStampHM(fdate) - 16))
        last == StrptimeYmd(StrftimeYmd(StrptimeStampHM(fdate) - 1))
        fileTime == [i \in 1..(last - first + 1) |-> first + i - 1]
        time == SubSeq(fileTime, 3, Len(fileTime))
    IN  [time |-> time,
         lat |-> grid,
         val |-> [t \in 1..Len(time), x \in grid |-> AnalysisValue(time[t], x)]]

\* the input dates of the runs followed: a Thursday, a Saturday, and a run
\* whose windows cross the end of a leap year
WindowInputs ==
    { <<"2", "0", "2", "4", "0", "6", "1", "3">>,
      <<"2", "0", "2", "4", "0", "6", "1", "5">>,
      <<"2", "0", "2", "4", "1", "2", "2", "8">> }

\* the state of MISO_calculations.py when it comes to the pair after `iter`
\* pairs, all files on the climatology's grid
WindowInit ==
    /\ input_date \in WindowInputs
    /\ latest_thursday_date = LatestThursday(StrptimeYmd(input_date))
    /\ forecast_date = StrftimeStamp(latest_thursday_date)
    /\ initial = [j \in 1..Len(InitialOffsets) |->
                    StrftimeStamp(StrptimeStampHM(forecast_date) - InitialOffsets[j])]
    /\ precip_clim_file = ClimTable(366)
    /\ precip_clim = precip_clim_file
    /\ olr_clim_grouped = <<>> /\ olr_clim = <<>> /\ olr_forecast_anom = <<>>
    /\ forecast_grid = [i \in 1..NumPairs(initial) |-> ClimGrid]
    /\ forecast_last_day \in {18, 35}
    /\ iter \in 0..(NumPairs(initial) - 1)
    /\ precip_forecast_anom = <<>>
    /\ precip_lag = <<>>
    /\ \E kind \in {"signed", "mixed"} : eeofs = Eigenvectors(kind, ScoreEmbedding)
    /\ miso_scores_std = <<2, 3>>
    /\ precip_concat = <<>> /\ precip_miso_lagged = <<>>
    /\ raw_scores = <<>> /\ miso_scores = <<>>
    /\ miso1_score = <<>> /\ miso2_score = <<>>
    /\ pc = "window_anomaly"
    /\ raised = ""
    /\ series_name = {} /\ combined_miso = <<>> /\ file_path = <<>> /\ files = {}
    /\ PlotNameIdle /\ EmbedIdle /\ MeanIdle

\* the iteration of the precipitation loop for the pair
WindowAnomaly ==
    /\ pc = "window_anomaly"
    /\ LET p == PairAt(initial, iter + 1)
           num == iter \div Len(members)
           precip_forecast == ForecastWindow(p.ini, num, forecast_grid[iter + 1],
                                             forecast_last_day)
           reindexed == ReindexNearest(precip_clim, precip_forecast.lat)
           selected == SelDayOfYear(reindexed, precip_forecast.time)
       IN  /\ precip_clim' = reindexed
           /\ IF selected.error # ""
              THEN /\ raised' = selected.error
                   /\ pc' = "raised"
                   /\ UNCHANGED precip_forecast_anom
              ELSE /\ precip_forecast_anom' =
                         ResultPut(precip_forecast_anom, <<p.ini, p.member>>,
                                   SubSeries(precip_forecast, selected.series))
                   /\ pc' = "window_lag"
                   /\ UNCHANGED raised
    /\ UNCHANGED <<input_date, latest_thursday_date, forecast_date, initial,
                   precip_clim_file, olr_clim_grouped, olr_clim, forecast_grid,
                   forecast_last_day, iter, olr_forecast_anom, notAnom>>

\* precip_lag, from the analysis file on the climatology's grid
WindowLag ==
    /\ pc = "window_lag"
    /\ LET lag == ReindexSeries(PrecipLag1(forecast_date, ClimGrid), precip_clim.lat)
           selected == SelDayOfYear(precip_clim, lag.time)
       IN  IF selected.error # ""
           THEN /\ raised' = selected.error
                /\ pc' = "raised"
                /\ UNCHANGED precip_lag
           ELSE /\ precip_lag' = SubSeries(lag, selected.series)
                /\ pc' = "score_concat"
                /\ UNCHANGED raised
    /\ UNCHANGED <<eeofs, miso_scores_std, precip_concat, precip_miso_lagged,
                   raw_scores, miso_scores, miso1_score, miso2_score, notScore>>

WindowNext == WindowAnomaly \/ WindowLag \/ ScoreNext

SpecWindow == WindowInit /\ [][WindowNext]_vars

-----------------------------------------------------------------------------
(* Claims about prepare_data_for_eeof, under SpecEmbed *)

EmbedDone == pc \in {"returned", "raised"}

\* number of samples on the time axis of a returned array (every lagged copy
\* has the same number)
TimeLen(X) == IF Len(X.values) = 0 THEN 0 ELSE Len(X.values[1])

\* C1: for tau >= 0, embedding >= 1 and a fully defined series of length
\* L > (embedding-1)*tau, the call returns an array with `embedding` lagged
\* copies of exactly L - (embedding-1)*tau samples each, none of them NaN.
C1_TrimmedLengthAndDefined ==
    (/\ EmbedDone
     /\ time_dim_found /\ tau >= 0 /\ embedding >= 1
     /\ Len(data) > (embedding - 1) * tau
     /\ AllDefined(data))
    => /\ pc = "returned"
       /\ Len(X_trimmed.values) = embedding
       /\ \A k \in 1..embedding :
            /\ Len(X_trimmed.values[k]) = Len(data) - (embedding - 1) * tau
            /\ AllDefined(X_trimmed.values[k])

C1_Witness ==
    /\ pc = "returned"
    /\ embedding = 3 /\ tau = 1 /\ Len(data) = 3
    /\ AllDefined(data)
    /\ Len(X_trimmed.values[3]) = 1

\* C2: the call raises ValueError whenever embedding < 1, tau < 0 or the trim
\* amount (embedding-1)*tau is >= the number of input samples, and returns
\* no array then.
C2_InvalidArgumentsRaise ==
    (/\ EmbedDone
     /\ \/ embedding < 1
        \/ tau < 0
        \/ (embedding - 1) * tau >= Len(data))
    => pc = "raised"

\* C3: a returned array has a time axis of strictly more than 0 samples,
\* whatever the input length, tau and embedding.
C3_ReturnedTimeAxisNonEmpty ==
    pc = "returned" => TimeLen(X_trimmed) > 0

\* C4: with embedding = 1 the call succeeds for every tau >= 0 and returns
\* one lag copy equal to the input, sample for sample.
C4_EmbeddingOneIsIdentity ==
    (EmbedDone /\ time_dim_found /\ embedding = 1 /\ tau >= 0)
    => /\ pc = "returned"
       /\ Len(X_trimmed.values) = 1
       /\ Len(X_trimmed.values[1]) = Len(data)
       /\ \A t \in 1..Len(data) : X_trimmed.values[1][t] = data[t]

C4_Witness ==
    /\ pc = "returned"
    /\ embedding = 1 /\ tau = 2 /\ Len(data) = 2
    /\ X_trimmed.values = <<data>>

\* C12: in a returned array the copies are stacked in increasing lag index
\* k = 0..embedding-1, the embedding axis is labelled k*tau, and the value at
\* (k, t) is the input value at time position t + k*tau, a position of the
\* input: no sample filled in beyond the end of the input is kept.
C12_LaggedCopiesAndLabels ==
    pc = "returned" =>
        /\ Len(X_trimmed.values) = embedding
        /\ X_trimmed.embedding = [k \in 1..embedding |-> (k - 1) * tau]
        /\ \A k \in 1..embedding : \A t \in 1..Len(X_trimmed.values[k]) :
              /\ t + (k - 1) * tau <= Len(data)
              /\ X_trimmed.values[k][t] = data[t + (k - 1) * tau]

C12_Witness ==
    /\ pc = "returned"
    /\ embedding = 2 /\ tau = 2
    /\ data = <<Def(0), NaN, Def(1)>>
    /\ X_trimmed = [values |-> <<<<Def(0)>>, <<Def(1)>>>>, embedding |-> <<0, 2>>]

-----------------------------------------------------------------------------
(* Claims about the dates and the names, under SpecName *)

Chars_20240609 == <<"2", "0", "2", "4", "0", "6", "0", "9">>
Chars_20240610 == <<"2", "0", "2", "4", "0", "6", "1", "0">>
Chars_20240611 == <<"2", "0", "2", "4", "0", "6", "1", "1">>
Chars_20240612 == <<"2", "0", "2", "4", "0", "6", "1", "2">>
Chars_20240613 == <<"2", "0", "2", "4", "0", "6", "1", "3">>

\* C9: the anchor is the most recent Thursday on or before the input date D
\* (a Thursday, not after D, at most 6 days before it, D itself when D is a
\* Thursday); the initializations are the four days anchor-4 .. anchor-1 in
\* ascending order; for D = 20240613 they are 20240609 .. 20240612 and the
\* file names embed 20240609-20240612 and 20240613.
C9_AnchorAndInitializations ==
    LET D == StrptimeYmd(input_date)
        A == latest_thursday_date
    IN  /\ (D # 0 /\ pc # "calc_thursday") => pc # "raised"
        /\ file_path # <<>> =>
            /\ Weekday(A) = 3 /\ A <= D /\ D - A <= 6
            /\ (Weekday(D) = 3 => A = D)
            /\ Prefix(forecast_date, 8) = StrftimeYmd(A)
            /\ Len(initial) = 4
            /\ \A j \in 1..4 : StrptimeYmd(Prefix(initial[j], 8)) = A - 5 + j
            /\ \A j \in 1..3 : StrptimeYmd(Prefix(initial[j], 8))
                                 < StrptimeYmd(Prefix(initial[j + 1], 8))
            /\ input_date = Chars_20240613 =>
                /\ [j \in 1..4 |-> Prefix(initial[j], 8)] =
                      <<Chars_20240609, Chars_20240610, Chars_20240611, Chars_20240612>>
                /\ \A mode \in 1..2 :
                     file_path[mode] =
                        <<"~/forecast/MISOs/", ModeTag(mode), "CNCUM_IC_">>
                        \o Chars_20240609 \o <<"-">> \o Chars_20240612
                        \o <<"_FC_">> \o Chars_20240613 \o <<".nc">>

C9_Witness ==
    /\ input_date = Chars_20240613
    /\ file_path # <<>>
    /\ Prefix(initial[1], 8) = Chars_20240609

\* C10: for the same input date the renderer opens the two files the
\* calculator wrote, each file holds exactly 16 series under pairwise distinct
\* labels, and every name the renderer looks up is the name under which the
\* calculator stored the series of that (initialization, member) pair.
C10_RendererReadsWhatCalculatorWrote ==
    /\ raised \notin {"FileNotFoundError", "KeyError"}
    /\ plot_file_path # <<>> => plot_file_path = file_path
    /\ files # {} =>
        /\ DictKeys(files) = {file_path[1], file_path[2]}
        /\ Cardinality(files) = 2
        /\ \A f \in files :
             /\ Cardinality(DictKeys(f.value)) = 16
             /\ Cardinality({<<e.value.ini, e.value.member>> : e \in f.value}) = 16
    /\ \A n \in 1..Len(plot_data) :
         \A mode \in 1..2 :
            /\ plot_data[n][mode].mode = mode
            /\ plot_data[n][mode].ini = PairAt(plot_initial, n).ini
            /\ plot_data[n][mode].member = PairAt(plot_initial, n).member
    /\ pc = "plot_done" => Len(plot_data) = 16

C10_Witness ==
    /\ pc = "plot_done"
    /\ Len(plot_data) = 16
    /\ Weekday(StrptimeYmd(input_date)) # 3
    /\ plot_data[16][2].member = "mem4"

-----------------------------------------------------------------------------
(* Claims about the ensemble mean, under SpecMean *)

\* C6 as stated: at every date the mean is the mean of the members that have a
\* value there (their sum over their number), never NaN and never the sum
\* over the full member count when a member is missing.
C6_MeanOfMembersPresent ==
    pc = "mean_done" =>
        \A mode \in 1..2 : \A d \in 1..NumDates :
            members_present[mode][d] > 0 =>
                /\ ~IsNaN(miso_average[mode][d])
                /\ miso_average[mode][d][1] * members_present[mode][d]
                      = members_sum[mode][d] * miso_average[mode][d][2]

\* C6 as amended: at a date every one of the 16 series has a value, the mean
\* is their sum over 16 (series [1,2,3] and [3,4,5] in equal numbers give
\* [2,3,4]); at a date that any series lacks the mean is NaN.
C6_MeanOverAllOrNaN ==
    pc = "mean_done" =>
        \A mode \in 1..2 :
            /\ Len(miso_average[mode]) = NumDates
            /\ \A d \in 1..NumDates :
                 IF members_present[mode][d] = 16
                 THEN /\ ~IsNaN(miso_average[mode][d])
                      /\ miso_average[mode][d][1] = members_sum[mode][d]
                      /\ miso_average[mode][d][2] = 16
                 ELSE IsNaN(miso_average[mode][d])

C6_Witness ==
    /\ pc = "mean_done"
    /\ members_sum[1] = <<32, 48, 64>>
    /\ members_present[1] = <<16, 16, 16>>
    /\ miso_average[1] = <<<<32, 16>>, <<48, 16>>, <<64, 16>>>>

-----------------------------------------------------------------------------
(* Claims about the score projection, under SpecScore *)

\* the eigenvectors and the embedded array have the same lags and latitudes
AxesAgree ==
    /\ eeofs.embedding = precip_miso_lagged.embedding
    /\ eeofs.lat = precip_miso_lagged.lat

\* neither the eigenvectors nor the embedded array holds a NaN
NoneNaN ==
    /\ \A i \in DOMAIN eeofs.val : ~IsNaN(eeofs.val[i])
    /\ \A i \in DOMAIN precip_miso_lagged.val : ~IsNaN(precip_miso_lagged.val[i])

AllZero(s) == \A i \in DOMAIN s.val : s.val[i] = Def(0)

\* sum over the latitudes of S of eigenvector[m,k,x] * embedded_anomaly[k,t,x]
RECURSIVE LatSum(_, _, _, _)
LatSum(m, k, t, S) ==
    IF S = {} THEN 0
    ELSE LET x == CHOOSE y \in S : TRUE
         IN  eeofs.val[m, k, x][1] * precip_miso_lagged.val[k, t, x][1]
                + LatSum(m, k, t, S \ {x})

\* the same summed over the first k lags as well
RECURSIVE LagSum(_, _, _)
LagSum(m, t, k) ==
    IF k = 0 THEN 0
    ELSE LatSum(m, k, t, eeofs.lat) + LagSum(m, t, k - 1)

\* C5: the raw score of mode m at trimmed time t is the sum over all lags k
\* and all latitudes x of eigenvector[m,k,x] * embedded_anomaly[k,t,x], with
\* no clipping and no sign correction; and an all-zero anomaly series gives
\* all-zero raw scores for every set of eigenvectors.
C5_RawScoreIsFullProjection ==
    pc \in {"score_store", "scores_done"} =>
        /\ Len(raw_scores) = Len(eeofs.mode)
        /\ \A m \in 1..Len(raw_scores) :
             /\ Len(raw_scores[m]) = Len(precip_miso_lagged.time)
             /\ \A t \in 1..Len(raw_scores[m]) :
                  /\ AxesAgree /\ NoneNaN =>
                        raw_scores[m][t] = Def(LagSum(m, t, Len(eeofs.embedding)))
                  /\ AllZero(precip_lag) /\ AllZero(precip_forecast_anom[1].value) =>
                        raw_scores[m][t] = Def(0)

C5_Witness ==
    /\ pc = "scores_done"
    /\ AxesAgree /\ NoneNaN
    /\ raw_scores = <<<<Def(30), Def(30)>>, <<Def(0 - 30), Def(0 - 30)>>>>
    /\ miso_scores[2] = <<<<0 - 30, 3>>, <<0 - 30, 3>>>>

-----------------------------------------------------------------------------
(* Claims about the anomaly loops, under SpecAnom *)

\* the forecast that iteration i of a loop selects
ForecastOf(i) ==
    ForecastWindow(PairAt(initial, i).ini, (i - 1) \div Len(members),
                   forecast_grid[i], forecast_last_day)

\* the precipitation anomaly of iteration i computed on its own, from the
\* forecast and the climatology as read from its file
PrecipAnomalyAlone(i) ==
    LET f == ForecastOf(i)
    IN  SubSeries(f, SelDayOfYear(ReindexNearest(precip_clim_file, f.lat), f.time).series)

\* C7: a disagreement between the latitude axis of a series and that of the
\* climatology it is combined with aborts the run, so an anomaly is only ever
\* stored for operands whose axes agree, and it covers every latitude of the
\* series, never just the shared ones.
C7_AxisMismatchAborts ==
    \A i \in 1..Len(olr_forecast_anom) :
        /\ ForecastOf(i).lat = olr_clim_grouped.lat
        /\ olr_forecast_anom[i].value.lat = ForecastOf(i).lat

\* C8: the iterations only read the shared climatology and write only their
\* own result entry, so that the table stays as loaded and every anomaly is
\* what its iteration yields on its own, whatever ran before it.
C8_IterationsIndependent ==
    /\ pc \in {"precip_loop", "olr_loop", "anomalies_done"} =>
          precip_clim = precip_clim_file
    /\ \A i \in 1..Len(precip_forecast_anom) :
          precip_forecast_anom[i].value = PrecipAnomalyAlone(i)

\* the series has a day whose day of year the table does not hold
LacksDayOfYear(f, clim) ==
    \E t \in 1..Len(f.time) : DayOfYear(f.time[t]) \notin clim.dayofyear

\* the outcome the claim C11 asks of one iteration: forecast f against the
\* table clim, the results before and after it and the state it ends in
LookupOutcome(f, clim, before, after, pcAfter, raisedAfter) ==
    /\ (Cardinality(clim.dayofyear) = 365
          /\ \E t \in 1..Len(f.time) : DayOfYear(f.time[t]) = 366)
       => LacksDayOfYear(f, clim)
    /\ IF LacksDayOfYear(f, clim)
       THEN /\ pcAfter = "raised"
            /\ raisedAfter = "KeyError"
            /\ after = before
       ELSE /\ pcAfter # "raised"
            /\ raisedAfter = ""
            /\ Len(after) = Len(before) + 1
            /\ after[Len(after)].value.time = f.time

\* C11: an iteration whose forecast holds a day of year the climatology
\* lacks (day 366 against a table of 365 days) ends the run with a KeyError
\* and stores no anomaly; every other iteration stores an anomaly on the time
\* axis of its forecast.
C11_MissingDayOfYearRaises ==
    [][/\ (pc = "precip_loop" /\ iter < NumPairs(initial)) =>
            LookupOutcome(ForecastOf(iter + 1), precip_clim, precip_forecast_anom,
                          precip_forecast_anom', pc', raised')
       /\ (pc = "olr_loop" /\ iter < NumPairs(initial)) =>
            LookupOutcome(ForecastOf(iter + 1), olr_clim_grouped, olr_forecast_anom,
                          olr_forecast_anom', pc', raised')]_vars

C11_Witness ==
    /\ pc = "raised" /\ raised = "KeyError"
    /\ Cardinality(olr_clim_grouped.dayofyear) = 365
    /\ \E t \in 1..Len(ForecastOf(1).time) : DayOfYear(ForecastOf(1).time[t]) = 366
    /\ olr_forecast_anom = <<>>
    /\ Len(precip_forecast_anom) = NumPairs(initial)
    /\ precip_forecast_anom[1].value.time = ForecastOf(1).time
    /\ Len(precip_forecast_anom[1].value.time) > 0

-----------------------------------------------------------------------------
(* Claims about the windows and the stamps of the scores, under SpecWindow *)

\* the n consecutive days from `first` on
DaysFrom(first, n) == [i \in 1..n |-> first + i - 1]

\* the forecast file of the pair holds every day up to anchor + 31
FileComplete ==
    StrptimeStampHM(PairAt(initial, iter + 1).ini) + forecast_last_day
        >= latest_thursday_date + 31

\* the anomaly sample of a day at a latitude: of the lag history before the
\* anchor, of the forecast from the anchor on
SampleOfDay(o, x) ==
    IF o < latest_thursday_date
    THEN precip_lag.val[IndexOf(precip_lag.time, o), x]
    ELSE precip_forecast_anom[1].value.val[
             IndexOf(precip_forecast_anom[1].value.time, o), x]

\* sum over the latitudes of S of eigenvector[m,k,x] * sample of day o at x
RECURSIVE LatDaySum(_, _, _, _)
LatDaySum(m, k, o, S) ==
    IF S = {} THEN 0
    ELSE LET x == CHOOSE y \in S : TRUE
         IN  eeofs.val[m, k, x][1] * SampleOfDay(o, x)[1] + LatDaySum(m, k, o, S \ {x})

\* the same summed over the lags 0 .. k-1, lag j paired with day d - 14 + j
RECURSIVE DaySum(_, _, _)
DaySum(m, d, k) ==
    IF k = 0 THEN 0
    ELSE LatDaySum(m, k, d - 14 + (k - 1), eeofs.lat) + DaySum(m, d, k - 1)

====
